---- MODULE Spec2Model ----
(***************************************************************************)
(* A model of nar/human-gene-coverage.py: the cross-species gene coverage  *)
(* classification (main, get_model_gene_stats), the causal association     *)
(* extraction (get_causal_gene_phenotype_assocs), the paginated Solr fetch *)
(* loop both of them run, and map_iri_to_curie.                            *)
(***************************************************************************)
EXTENDS Integers, Sequences, FiniteSets, TLC

VARIABLES
    \* ---- inputs of the classification run (what the services answer) ----
    human_genes,        \* main: human_genes = get_human_genes()
    human_genes_pheno,  \* main: human_genes_pheno = get_gene_phenotype_list(human)
    solr_docs,          \* per taxon, the records the Solr index holds, in index order
    taxon_order,        \* the iteration order of TAXON_MAP.items()
    \* ---- main's locals ----
    pc,                 \* position in main / get_model_gene_stats
    taxon_idx,          \* index in taxon_order of the taxon being processed
    model_only,
    all_models,
    model_human_set,
    multi_model_set,
    report,             \* the numbers main prints at the end
    \* ---- get_model_gene_stats's locals ----
    results,
    start,              \* params['start']
    resultCount,
    page,               \* docs of the current response still to iterate
    doc,                \* the doc being iterated
    closure,            \* members of doc's closure still to iterate
    foundOrtholog,
    \* ---- get_causal_gene_phenotype_assocs ----
    causal_pc,
    causal_numFound,    \* the number of records the index holds for the query
    causal_start,       \* params['start']
    causal_resultCount, \* resultCount
    causal_page,        \* positions of the current response's docs still to iterate
    causal_doc,         \* the doc iterated last
    result_set,
    causal_requests,    \* history: the offsets requested
    causal_processed,   \* history: the positions of the docs iterated
    causal_accepted,    \* history: the subjects of the docs the criterion accepts
    \* ---- map_iri_to_curie ----
    curie_pc,
    iri,
    curie,              \* map_iri_to_curie(iri)
    curie_again         \* map_iri_to_curie(curie)

main_vars == <<human_genes, human_genes_pheno, solr_docs, taxon_order, pc, taxon_idx,
               model_only, all_models, model_human_set, multi_model_set, report,
               results, start, resultCount, page, doc, closure, foundOrtholog>>

causal_vars == <<causal_pc, causal_numFound, causal_start, causal_resultCount,
                 causal_page, causal_doc, result_set, causal_requests,
                 causal_processed, causal_accepted>>

curie_vars == <<curie_pc, iri, curie, curie_again>>

vars == <<main_vars, causal_vars, curie_vars>>

\* What a run of one part leaves alone of the other parts.
elsewhere == <<causal_vars, curie_vars>>

-----------------------------------------------------------------------------
(* Bounds and input universes *)

\* The most records the index holds over all taxa together.
MaxDocs == 3

\* params['rows'], the page size. The source asks for 1000 rows a page; the
\* model scales the page down so that a taxon's records span several pages.
Rows == 2

\* The organisms of TAXON_MAP (the source lists four; three are modelled).
TAXON_MAP == {"A", "B", "C"}

\* The gene identifiers that occur: H1..H4 are human genes, X is not.
HumanGeneUniverse == {"H1", "H2", "H3", "H4"}

\* The evidence sets a run may start from. In the second, H1 is a human gene
\* without evidence and X has evidence without being a known human gene.
PhenoChoices == {{"H1", "H2"}, {"H2", "X"}}

\* The records a taxon may hold: a subject and, optionally, its ortholog closure.
DocKinds ==
    { [subject |-> "m0"],
      [subject |-> "m1", subject_ortholog_closure |-> <<"H1", "H3">>],
      [subject |-> "m2", subject_ortholog_closure |-> <<"H3", "H4">>],
      [subject |-> "m3", subject_ortholog_closure |-> <<"H4">>],
      [subject |-> "m4", subject_ortholog_closure |-> <<"X">>] }

\* All sequences of exactly n records.
RECURSIVE DocSeqs(_)
DocSeqs(n) ==
    IF n = 0 THEN {<<>>}
    ELSE {Append(s, d) : s \in DocSeqs(n - 1), d \in DocKinds}

\* All assignments of record sequences to the taxa in ts holding at most
\* budget records together.
RECURSIVE DocInputsFor(_, _)
DocInputsFor(ts, budget) ==
    IF ts = {} THEN {<<>>}
    ELSE LET t == CHOOSE x \in ts : TRUE
         IN  UNION { { (t :> s) @@ f : s \in DocSeqs(n),
                                       f \in DocInputsFor(ts \ {t}, budget - n) }
                     : n \in 0..budget }

DocInputs == DocInputsFor(TAXON_MAP, MaxDocs)

\* The orders in which TAXON_MAP may be iterated.
Orders ==
    { o \in [1..Cardinality(TAXON_MAP) -> TAXON_MAP] :
        \A i, j \in 1..Cardinality(TAXON_MAP) : i # j => o[i] # o[j] }

-----------------------------------------------------------------------------
(* The paginated fetch *)

\* The loop's first value of resultCount: params['rows'].
InitialResultCount == Rows

\* while params['start'] < resultCount
LoopContinues(s, rc) == s < rc

\* A variant of NextStart that steps one record too far.
NextStart_OffByOne(s) == s + Rows + 1

\* params['start'] += params['rows']
NextStart(s) == s + Rows

\* The index's answer to a request at offset s: the total it holds and the
\* records s+1 .. s+rows of them.
SolrResponse(all, s) ==
    [numFound |-> Len(all),
     docs |-> SubSeq(all, s + 1, IF s + Rows < Len(all) THEN s + Rows ELSE Len(all))]

-----------------------------------------------------------------------------
(* get_model_gene_stats *)

\* The results dict of a call: a fresh model_set and unmatched_set, and the
\* caller's three sets (the same objects).
NewResults(mo, mh, mm) ==
    [model_set |-> {}, model_only |-> mo, model_human_set |-> mh,
     multi_model_set |-> mm, unmatched_set |-> {}]

\* Whether the body of "for ortholog in closure" matches the ortholog.
Matches(ortholog, hg, pheno) == ortholog \in pheno \/ ortholog \in hg

\* A variant of ClassifyOrtholog that tests human_genes before the evidence.
ClassifyOrtholog_HumanFirst(r, ortholog, hg, pheno) ==
    IF ortholog \in hg
    THEN IF ortholog \in r.model_only
         THEN [r EXCEPT !.model_set = @ \cup {ortholog},
                        !.multi_model_set = @ \cup {ortholog}]
         ELSE [r EXCEPT !.model_set = @ \cup {ortholog},
                        !.model_only = @ \cup {ortholog}]
    ELSE IF ortholog \in pheno
    THEN [r EXCEPT !.model_human_set = @ \cup {ortholog},
                   !.model_set = @ \cup {ortholog}]
    ELSE r

\* A variant of ClassifyOrtholog whose second branch adds the ortholog to
\* model_human_set instead of model_set.
ClassifyOrtholog_WrongSet(r, ortholog, hg, pheno) ==
    IF ortholog \in pheno
    THEN [r EXCEPT !.model_human_set = @ \cup {ortholog},
                   !.model_set = @ \cup {ortholog}]
    ELSE IF ortholog \in hg
    THEN IF ortholog \in r.model_only
         THEN [r EXCEPT !.model_human_set = @ \cup {ortholog},
                        !.multi_model_set = @ \cup {ortholog}]
         ELSE [r EXCEPT !.model_human_set = @ \cup {ortholog},
                        !.model_only = @ \cup {ortholog}]
    ELSE r

\* A variant of ClassifyOrtholog that adds every closure member to model_set
\* before it tests it.
ClassifyOrtholog_AddAlways(r, ortholog, hg, pheno) ==
    IF ortholog \in pheno
    THEN [r EXCEPT !.model_human_set = @ \cup {ortholog},
                   !.model_set = @ \cup {ortholog}]
    ELSE IF ortholog \in hg
    THEN IF ortholog \in r.model_only
         THEN [r EXCEPT !.model_set = @ \cup {ortholog},
                        !.multi_model_set = @ \cup {ortholog}]
         ELSE [r EXCEPT !.model_set = @ \cup {ortholog},
                        !.model_only = @ \cup {ortholog}]
    ELSE [r EXCEPT !.model_set = @ \cup {ortholog}]

\* A variant of ClassifyOrtholog whose second test is an "if", not an "elif":
\* a gene with evidence that is a human gene takes both branches.
ClassifyOrtholog_IfNotElif(r, ortholog, hg, pheno) ==
    LET r1 == IF ortholog \in pheno
              THEN [r EXCEPT !.model_human_set = @ \cup {ortholog},
                             !.model_set = @ \cup {ortholog}]
              ELSE r
    IN  IF ortholog \in hg
        THEN IF ortholog \in r1.model_only
             THEN [r1 EXCEPT !.model_set = @ \cup {ortholog},
                             !.multi_model_set = @ \cup {ortholog}]
             ELSE [r1 EXCEPT !.model_set = @ \cup {ortholog},
                             !.model_only = @ \cup {ortholog}]
        ELSE r1

\* The body of "for ortholog in closure" on the results dict.
ClassifyOrtholog(r, ortholog, hg, pheno) ==
    IF ortholog \in pheno
    THEN [r EXCEPT !.model_human_set = @ \cup {ortholog},
                   !.model_set = @ \cup {ortholog}]
    ELSE IF ortholog \in hg
    THEN IF ortholog \in r.model_only
         THEN [r EXCEPT !.model_set = @ \cup {ortholog},
                        !.multi_model_set = @ \cup {ortholog}]
         ELSE [r EXCEPT !.model_set = @ \cup {ortholog},
                        !.model_only = @ \cup {ortholog}]
    ELSE r

\* A variant of ReturnedModelOnly that reads the wrong key of the results.
ReturnedModelOnly_WrongKey(r) == r.model_set

\* main: model_only = results['model_only']
ReturnedModelOnly(r) == r.model_only

\* main: model_human_set = results['model_human_set']
ReturnedModelHuman(r) == r.model_human_set

\* main: the per-taxon "only" count printed at the end.
OneSpeciesCount(ms, mm, mh) ==
    Cardinality(ms) - Cardinality(ms \cap mm) - Cardinality(ms \cap mh)

\* main: the "Human only" count.
HumanOnlyCount(pheno, mh) == Cardinality(pheno) - Cardinality(mh)

NoReport == [human_only |-> 0, models_only |-> 0, models_plus_human |-> 0,
             multi |-> 0, one_species |-> [t \in TAXON_MAP |-> 0]]

CurTaxon == taxon_order[taxon_idx]

-----------------------------------------------------------------------------
(* The classification run *)

MainStart ==
    /\ human_genes = HumanGeneUniverse
    /\ human_genes_pheno \in PhenoChoices
    /\ solr_docs \in DocInputs
    /\ taxon_order \in Orders
    /\ pc = "main_for"
    /\ taxon_idx = 1
    /\ model_only = {}
    /\ all_models = <<>>
    /\ model_human_set = {}
    /\ multi_model_set = {}
    /\ report = NoReport
    /\ results = NewResults({}, {}, {})
    /\ start = 0
    /\ resultCount = 0
    /\ page = <<>>
    /\ doc = [subject |-> "m0"]
    /\ closure = <<>>
    /\ foundOrtholog = FALSE

inputs == <<human_genes, human_genes_pheno, solr_docs, taxon_order>>

\* main line 67-72 and get_model_gene_stats lines 97-116: the call for the
\* next taxon starts.
CallStats ==
    /\ pc = "main_for"
    /\ taxon_idx <= Len(taxon_order)
    /\ results' = NewResults(model_only, model_human_set, multi_model_set)
    /\ start' = 0
    /\ resultCount' = InitialResultCount
    /\ pc' = "while"
    /\ UNCHANGED <<elsewhere, inputs, taxon_idx, model_only, all_models, model_human_set,
                   multi_model_set, report, page, doc, closure, foundOrtholog>>

\* lines 117-120: one request of the loop.
Request ==
    /\ pc = "while"
    /\ LoopContinues(start, resultCount)
    /\ LET response == SolrResponse(solr_docs[CurTaxon], start)
       IN  /\ resultCount' = response.numFound
           /\ page' = response.docs
    /\ pc' = "for_doc"
    /\ UNCHANGED <<elsewhere, inputs, taxon_idx, model_only, all_models, model_human_set,
                   multi_model_set, report, results, start, doc, closure,
                   foundOrtholog>>

\* lines 122-124: the next doc of the response.
NextDoc ==
    /\ pc = "for_doc"
    /\ page # <<>>
    /\ doc' = Head(page)
    /\ page' = Tail(page)
    /\ foundOrtholog' = FALSE
    /\ closure' = IF "subject_ortholog_closure" \in DOMAIN Head(page)
                  THEN Head(page).subject_ortholog_closure
                  ELSE <<>>
    /\ pc' = "for_ortholog"
    /\ UNCHANGED <<elsewhere, inputs, taxon_idx, model_only, all_models, model_human_set,
                   multi_model_set, report, results, start, resultCount>>

\* lines 125-136: one member of the closure. The caller's sets are the
\* objects the results dict holds, so they change with it.
ProcessOrtholog ==
    /\ pc = "for_ortholog"
    /\ closure # <<>>
    /\ LET r == ClassifyOrtholog(results, Head(closure), human_genes, human_genes_pheno)
       IN  /\ results' = r
           /\ model_only' = r.model_only
           /\ model_human_set' = r.model_human_set
           /\ multi_model_set' = r.multi_model_set
    /\ foundOrtholog' = (foundOrtholog
                            \/ Matches(Head(closure), human_genes, human_genes_pheno))
    /\ closure' = Tail(closure)
    /\ UNCHANGED <<elsewhere, inputs, pc, taxon_idx, all_models, report, start, resultCount,
                   page, doc>>

\* lines 137-138: the doc is done.
EndDoc ==
    /\ pc = "for_ortholog"
    /\ closure = <<>>
    /\ results' = IF foundOrtholog THEN results
                  ELSE [results EXCEPT !.unmatched_set = @ \cup {doc.subject}]
    /\ pc' = "for_doc"
    /\ UNCHANGED <<elsewhere, inputs, taxon_idx, model_only, all_models, model_human_set,
                   multi_model_set, report, start, resultCount, page, doc, closure,
                   foundOrtholog>>

\* line 140: the page is done.
EndPage ==
    /\ pc = "for_doc"
    /\ page = <<>>
    /\ start' = NextStart(start)
    /\ pc' = "while"
    /\ UNCHANGED <<elsewhere, inputs, taxon_idx, model_only, all_models, model_human_set,
                   multi_model_set, report, results, resultCount, page, doc, closure,
                   foundOrtholog>>

\* line 142 and main lines 74-77: the call returns and main keeps its results.
ReturnStats ==
    /\ pc = "while"
    /\ ~LoopContinues(start, resultCount)
    /\ model_only' = ReturnedModelOnly(results)
    /\ all_models' = (CurTaxon :> results.model_set) @@ all_models
    /\ model_human_set' = ReturnedModelHuman(results)
    /\ taxon_idx' = taxon_idx + 1
    /\ pc' = "main_for"
    /\ UNCHANGED <<elsewhere, inputs, multi_model_set, report, results, start, resultCount,
                   page, doc, closure, foundOrtholog>>

\* main lines 80-91: the counts printed.
Report ==
    /\ pc = "main_for"
    /\ taxon_idx > Len(taxon_order)
    /\ report' = [human_only |-> HumanOnlyCount(human_genes_pheno, model_human_set),
                  models_only |-> Cardinality(model_only),
                  models_plus_human |-> Cardinality(model_human_set),
                  multi |-> Cardinality(multi_model_set),
                  one_species |->
                      [t \in TAXON_MAP |->
                          OneSpeciesCount(all_models[t], multi_model_set, model_human_set)]]
    /\ pc' = "done"
    /\ UNCHANGED <<elsewhere, inputs, taxon_idx, model_only, all_models, model_human_set,
                   multi_model_set, results, start, resultCount, page, doc, closure,
                   foundOrtholog>>

Next ==
    \/ CallStats
    \/ Request
    \/ NextDoc
    \/ ProcessOrtholog
    \/ EndDoc
    \/ EndPage
    \/ ReturnStats
    \/ Report

-----------------------------------------------------------------------------
(* get_causal_gene_phenotype_assocs *)

\* The most records the index holds for the causal query.
MaxFound == 5

\* causal_source, the allowlist.
causal_source == {"http://data.monarchinitiative.org/ttl/clinvar.ttl",
                  "http://data.monarchinitiative.org/ttl/omim.ttl",
                  "http://data.monarchinitiative.org/ttl/orphanet.ttl"}

\* The relation filtered out as "likely pathogenic".
LikelyPathogenic == "GENO:0000841"

\* The source trusted when it is a record's whole provenance.
Hpoa == "http://data.monarchinitiative.org/ttl/hpoa.ttl"

\* A source outside the allowlist, other than Hpoa.
Mgi == "http://data.monarchinitiative.org/ttl/mgi.ttl"

\* The relations, subjects and is_defined_by lists that occur in records.
Relations == {LikelyPathogenic, "GENO:0000840"}
Subjects == {"NCBIGene:1", "NCBIGene:2"}
ProvenanceLists ==
    { <<>>,
      <<"http://data.monarchinitiative.org/ttl/clinvar.ttl">>,
      <<Hpoa>>,
      <<Mgi>>,
      <<Hpoa, Hpoa>>,
      <<Hpoa, Mgi>>,
      <<Mgi, "http://data.monarchinitiative.org/ttl/omim.ttl">>,
      <<Hpoa, "http://data.monarchinitiative.org/ttl/orphanet.ttl">> }

\* The records of the causal query: relation and is_defined_by are optional.
CausalDocs ==
    {[subject |-> s] : s \in Subjects}
        \cup {[subject |-> s, relation |-> r] : s \in Subjects, r \in Relations}
        \cup {[subject |-> s, is_defined_by |-> l] : s \in Subjects, l \in ProvenanceLists}
        \cup {[subject |-> s, relation |-> r, is_defined_by |-> l] :
                 s \in Subjects, r \in Relations, l \in ProvenanceLists}

\* A variant of SkipsDoc that trusts Hpoa wherever it is in the provenance.
SkipsDoc_HpoaAnywhere(d) ==
    \/ "relation" \in DOMAIN d /\ d.relation = LikelyPathogenic
    \/ /\ "is_defined_by" \in DOMAIN d
       /\ Cardinality({i \in DOMAIN d.is_defined_by : d.is_defined_by[i] \in causal_source}) = 0
       /\ ~\E i \in DOMAIN d.is_defined_by : d.is_defined_by[i] = Hpoa

\* Whether the body of "for doc in docs" reaches a continue (lines 241-249).
SkipsDoc(d) ==
    \/ "relation" \in DOMAIN d /\ d.relation = LikelyPathogenic
    \/ /\ "is_defined_by" \in DOMAIN d
       /\ Cardinality({i \in DOMAIN d.is_defined_by : d.is_defined_by[i] \in causal_source}) = 0
       /\ d.is_defined_by # <<Hpoa>>

\* The body of "for doc in docs" on result_set.
CausalStep(rs, d) == IF SkipsDoc(d) THEN rs ELSE rs \cup {d.subject}

\* The acceptance criterion as the specification words it.
CriterionAccepts(d) ==
    /\ ~("relation" \in DOMAIN d /\ d.relation = LikelyPathogenic)
    /\ \/ "is_defined_by" \notin DOMAIN d
       \/ \E i \in DOMAIN d.is_defined_by : d.is_defined_by[i] \in causal_source
       \/ d.is_defined_by = <<Hpoa>>

CausalStart ==
    /\ causal_pc = "while"
    /\ causal_numFound \in 0..MaxFound
    /\ causal_start = 0
    /\ causal_resultCount = InitialResultCount
    /\ causal_page = <<>>
    /\ causal_doc = [subject |-> "NCBIGene:1"]
    /\ result_set = {}
    /\ causal_requests = <<>>
    /\ causal_processed = <<>>
    /\ causal_accepted = {}

\* lines 235-238: one request of the loop. The index answers with the total
\* and the records at positions start+1 .. start+rows.
CausalRequest ==
    /\ causal_pc = "while"
    /\ LoopContinues(causal_start, causal_resultCount)
    /\ LET response == SolrResponse([i \in 1..causal_numFound |-> i], causal_start)
       IN  /\ causal_resultCount' = response.numFound
           /\ causal_page' = response.docs
    /\ causal_requests' = Append(causal_requests, causal_start)
    /\ causal_pc' = "for_doc"
    /\ UNCHANGED <<main_vars, curie_vars, causal_numFound, causal_start, causal_doc,
                   result_set, causal_processed, causal_accepted>>

\* lines 240-251: the next doc of the response, whatever record it is.
CausalDoc ==
    /\ causal_pc = "for_doc"
    /\ causal_page # <<>>
    /\ \E d \in CausalDocs :
          /\ causal_doc' = d
          /\ result_set' = CausalStep(result_set, d)
          /\ causal_accepted' = IF CriterionAccepts(d)
                                THEN causal_accepted \cup {d.subject}
                                ELSE causal_accepted
    /\ causal_processed' = Append(causal_processed, Head(causal_page))
    /\ causal_page' = Tail(causal_page)
    /\ UNCHANGED <<main_vars, curie_vars, causal_pc, causal_numFound, causal_start,
                   causal_resultCount, causal_requests>>

\* line 253: the page is done.
CausalEndPage ==
    /\ causal_pc = "for_doc"
    /\ causal_page = <<>>
    /\ causal_start' = NextStart(causal_start)
    /\ causal_pc' = "while"
    /\ UNCHANGED <<main_vars, curie_vars, causal_numFound, causal_resultCount,
                   causal_page, causal_doc, result_set, causal_requests,
                   causal_processed, causal_accepted>>

\* line 255: the loop ends and result_set is returned.
CausalReturn ==
    /\ causal_pc = "while"
    /\ ~LoopContinues(causal_start, causal_resultCount)
    /\ causal_pc' = "done"
    /\ UNCHANGED <<main_vars, curie_vars, causal_numFound, causal_start,
                   causal_resultCount, causal_page, causal_doc, result_set,
                   causal_requests, causal_processed, causal_accepted>>

CausalNext ==
    \/ CausalRequest
    \/ CausalDoc
    \/ CausalEndPage
    \/ CausalReturn

-----------------------------------------------------------------------------
(* map_iri_to_curie *)

\* The longest identifier normalised, in tokens.
MaxIriLen == 6

\* Identifiers are sequences of tokens: the pieces of the two prefixes of
\* CURIE_MAP around their first dot, the dot, and a digit.
GenePrefix == <<"http://www", ".", "ncbi.nlm.nih.gov/gene/">>
TaxonPrefix == <<"http://purl", ".", "obolibrary.org/obo/NCBITaxon_">>

IriTokens == {GenePrefix[i] : i \in 1..3} \cup {TaxonPrefix[i] : i \in 1..3} \cup {"9"}

\* The tokens that are one character long.
SingleChars == {".", "9"}

\* CURIE_MAP, in insertion order.
CURIE_MAP == <<[prefix |-> GenePrefix, curie |-> "NCBIGene"],
               [prefix |-> TaxonPrefix, curie |-> "NCBITaxon"]>>

\* "{0}:".format(CURIE_MAP[prefix]), as one token.
CurieToken(name) == IF name = "NCBIGene" THEN "NCBIGene:" ELSE "NCBITaxon:"

\* The identifiers of exactly n tokens.
IriSeqs(n) == [1..n -> IriTokens]

\* iri.startswith(prefix)
StartsWith(s, prefix) ==
    Len(s) >= Len(prefix) /\ SubSeq(s, 1, Len(prefix)) = prefix

\* Whether the prefix, read as a regular expression, matches at the head of
\* s: a dot in the pattern matches any one character.
RegexMatchesAt(s, prefix) ==
    /\ Len(s) >= Len(prefix)
    /\ \A i \in 1..Len(prefix) :
          \/ s[i] = prefix[i]
          \/ prefix[i] = "." /\ s[i] \in SingleChars

\* re.sub(prefix, repl, s): every non-overlapping match, leftmost first.
RECURSIVE RegexSub(_, _, _)
RegexSub(prefix, repl, s) ==
    IF s = <<>> THEN <<>>
    ELSE IF RegexMatchesAt(s, prefix)
    THEN <<repl>> \o RegexSub(prefix, repl, SubSeq(s, Len(prefix) + 1, Len(s)))
    ELSE <<Head(s)>> \o RegexSub(prefix, repl, Tail(s))

\* The loop of map_iri_to_curie from the k-th entry of CURIE_MAP on.
RECURSIVE MapFrom(_, _)
MapFrom(x, k) ==
    IF k > Len(CURIE_MAP) THEN x
    ELSE IF StartsWith(x, CURIE_MAP[k].prefix)
    THEN RegexSub(CURIE_MAP[k].prefix, CurieToken(CURIE_MAP[k].curie), x)
    ELSE MapFrom(x, k + 1)

map_iri_to_curie(x) == MapFrom(x, 1)

CurieStart ==
    /\ curie_pc = "start"
    /\ iri \in UNION {IriSeqs(n) : n \in 0..MaxIriLen}
    /\ curie = <<>>
    /\ curie_again = <<>>

\* curie = map_iri_to_curie(iri)
Normalize ==
    /\ curie_pc = "start"
    /\ curie' = map_iri_to_curie(iri)
    /\ curie_pc' = "once"
    /\ UNCHANGED <<main_vars, causal_vars, iri, curie_again>>

\* The result normalised once more.
NormalizeAgain ==
    /\ curie_pc = "once"
    /\ curie_again' = map_iri_to_curie(curie)
    /\ curie_pc' = "twice"
    /\ UNCHANGED <<main_vars, causal_vars, iri, curie>>

CurieNext ==
    \/ Normalize
    \/ NormalizeAgain

-----------------------------------------------------------------------------
(* Specifications: one per part of the script, the other parts at rest. *)

MainIdle ==
    /\ human_genes = HumanGeneUniverse
    /\ human_genes_pheno = {}
    /\ solr_docs = [t \in TAXON_MAP |-> <<>>]
    /\ taxon_order = <<>>
    /\ pc = "done"
    /\ taxon_idx = 1
    /\ model_only = {}
    /\ all_models = [t \in TAXON_MAP |-> {}]
    /\ model_human_set = {}
    /\ multi_model_set = {}
    /\ report = NoReport
    /\ results = NewResults({}, {}, {})
    /\ start = 0
    /\ resultCount = 0
    /\ page = <<>>
    /\ doc = [subject |-> "m0"]
    /\ closure = <<>>
    /\ foundOrtholog = FALSE

CausalIdle ==
    /\ causal_pc = "done"
    /\ causal_numFound = 0
    /\ causal_start = 0
    /\ causal_resultCount = 0
    /\ causal_page = <<>>
    /\ causal_doc = [subject |-> "NCBIGene:1"]
    /\ result_set = {}
    /\ causal_requests = <<>>
    /\ causal_processed = <<>>
    /\ causal_accepted = {}

CurieIdle ==
    /\ curie_pc = "twice"
    /\ iri = <<>>
    /\ curie = <<>>
    /\ curie_again = <<>>

Init == MainStart /\ CausalIdle /\ CurieIdle

\* The classification run.
Spec == Init /\ [][Next]_vars

CausalInit == MainIdle /\ CausalStart /\ CurieIdle

\* The causal extraction.
CausalSpec == CausalInit /\ [][CausalNext]_vars

\* The causal extraction, which runs to its end: the script is one thread
\* and nothing stops it between two steps.
CausalFairSpec == CausalSpec /\ WF_vars(CausalNext)

CurieInit == MainIdle /\ CausalIdle /\ CurieStart

\* The identifier normalisation.
CurieSpec == CurieInit /\ [][CurieNext]_vars

-----------------------------------------------------------------------------
(* The whole run as a function of its inputs: the same steps, composed. *)

\* "for ortholog in closure" over a whole closure.
RECURSIVE RunClosure(_, _, _, _)
RunClosure(r, cl, hg, pheno) ==
    IF cl = <<>> THEN r
    ELSE RunClosure(ClassifyOrtholog(r, Head(cl), hg, pheno), Tail(cl), hg, pheno)

\* The body of "for doc in docs" on one doc.
RunDoc(r, d, hg, pheno) ==
    LET cl == IF "subject_ortholog_closure" \in DOMAIN d
              THEN d.subject_ortholog_closure
              ELSE <<>>
        r2 == RunClosure(r, cl, hg, pheno)
    IN  IF \E i \in DOMAIN cl : Matches(cl[i], hg, pheno)
        THEN r2
        ELSE [r2 EXCEPT !.unmatched_set = @ \cup {d.subject}]

\* Every doc of one taxon, in index order.
RECURSIVE RunDocs(_, _, _, _)
RunDocs(r, ds, hg, pheno) ==
    IF ds = <<>> THEN r
    ELSE RunDocs(RunDoc(r, Head(ds), hg, pheno), Tail(ds), hg, pheno)

\* One pass of main's loop over the taxa: the call and what main keeps of it.
RunTaxon(acc, t, docs, hg, pheno) ==
    LET r == RunDocs(NewResults(acc.model_only, acc.model_human_set,
                                acc.multi_model_set), docs[t], hg, pheno)
    IN  [model_only |-> ReturnedModelOnly(r),
         model_human_set |-> ReturnedModelHuman(r),
         multi_model_set |-> r.multi_model_set,
         all_models |-> (t :> r.model_set) @@ acc.all_models]

\* main's loop over the taxa in the order o, from its i-th taxon on.
RECURSIVE RunOrder(_, _, _, _, _, _)
RunOrder(acc, o, i, docs, hg, pheno) ==
    IF i > Len(o) THEN acc
    ELSE RunOrder(RunTaxon(acc, o[i], docs, hg, pheno), o, i + 1, docs, hg, pheno)

\* What main reports of multi_model_set and of the per-taxon "only" counts
\* when the taxa are processed in the order o.
Outcome(docs, hg, pheno, o) ==
    LET f == RunOrder([model_only |-> {}, model_human_set |-> {},
                       multi_model_set |-> {}, all_models |-> <<>>],
                      o, 1, docs, hg, pheno)
    IN  [multi |-> f.multi_model_set,
         one_species |->
             [t \in TAXON_MAP |->
                 OneSpeciesCount(f.all_models[t], f.multi_model_set, f.model_human_set)]]

-----------------------------------------------------------------------------
(* What the inputs say, independently of the run *)

\* The members of a doc's closure.
DocMembers(d) ==
    IF "subject_ortholog_closure" \in DOMAIN d
    THEN {d.subject_ortholog_closure[i] : i \in DOMAIN d.subject_ortholog_closure}
    ELSE {}

\* The closure members of all the records of taxon t.
ClosureMembers(t) ==
    UNION {DocMembers(solr_docs[t][i]) : i \in DOMAIN solr_docs[t]}

AllClosureMembers == UNION {ClosureMembers(t) : t \in TAXON_MAP}

\* The genes matched in the records of taxon t.
MatchedIn(t) == ClosureMembers(t) \cap (human_genes \cup human_genes_pheno)

\* The taxa whose call has started.
StartedTaxa ==
    {taxon_order[i] : i \in {j \in DOMAIN taxon_order : j <= taxon_idx}}

\* Whether a call of get_model_gene_stats is in progress.
InCall == pc \in {"while", "for_doc", "for_ortholog"}

\* The model sets that exist: main's all_models and the running call's.
ModelSets ==
    {all_models[t] : t \in DOMAIN all_models}
        \cup (IF InCall THEN {results.model_set} ELSE {})

\* The spec's end-to-end scenario.
ScenarioDocs ==
    [t \in TAXON_MAP |->
        CASE t = "A" -> <<[subject |-> "m1", subject_ortholog_closure |-> <<"H1", "H3">>]>>
          [] t = "B" -> <<[subject |-> "m2", subject_ortholog_closure |-> <<"H3", "H4">>]>>
          [] t = "C" -> <<[subject |-> "m3", subject_ortholog_closure |-> <<"H4">>]>>]

InScenario ==
    /\ human_genes_pheno = {"H1", "H2"}
    /\ human_genes = {"H1", "H2", "H3", "H4"}
    /\ solr_docs = ScenarioDocs
    /\ taxon_order = <<"A", "B", "C">>

-----------------------------------------------------------------------------
(* Claims about the classification run *)

\* C1: every gene of multiModel was matched, as a closure member that is a
\* human gene without evidence, under at least two different organisms.
C1_MultiModelTwoOrganisms ==
    \A g \in multi_model_set :
        /\ g \in human_genes \ human_genes_pheno
        /\ Cardinality({t \in StartedTaxa : g \in ClosureMembers(t)}) >= 2

\* C2 as stated: there are inputs and two orderings of the organisms whose
\* final multiModel or per-organism exclusive counts differ.
\* (If two orderings differ on some input, every ordering differs from one of
\* them there: so the claim is that, whatever the run's own order, some input
\* and some other ordering give another outcome.)
C2_OrderMatters ==
    \E d \in DocInputs, p \in PhenoChoices :
        \E o \in Orders :
            Outcome(d, human_genes, p, taxon_order) # Outcome(d, human_genes, p, o)

\* C2 amended: the final multiModel and every organism's exclusive count are
\* the same whatever the order the organisms are processed in.
C2_OrderIrrelevant ==
    pc = "done" =>
        \A o \in Orders :
            Outcome(solr_docs, human_genes, human_genes_pheno, o)
                = [multi |-> multi_model_set, one_species |-> report.one_species]

C2_Witness ==
    /\ pc = "done"
    /\ taxon_order = <<"C", "A", "B">>
    /\ multi_model_set # {}
    /\ \E t \in TAXON_MAP : report.one_species[t] > 0
    /\ \E g \in multi_model_set : g \in ClosureMembers("A") \cap ClosureMembers("C")

\* C3: once all organisms are processed, each organism's exclusive count is
\* the number of genes matched in its records, in no other organism's
\* records, and without human evidence.
C3_ExclusiveCountExact ==
    pc = "done" =>
        \A t \in TAXON_MAP :
            report.one_species[t] =
                Cardinality({g \in MatchedIn(t) :
                                /\ g \notin human_genes_pheno
                                /\ \A u \in TAXON_MAP \ {t} : g \notin MatchedIn(u)})

\* C4: once all organisms are processed, modelHuman is the closure members
\* with evidence, modelOnly the closure members that are human genes without
\* evidence, and closure members that are neither are in no tracking set; the
\* spec's scenario gives the values the spec states.
C4_FinalSets ==
    pc = "done" =>
        /\ model_human_set = AllClosureMembers \cap human_genes_pheno
        /\ model_only = AllClosureMembers \cap (human_genes \ human_genes_pheno)
        /\ \A g \in AllClosureMembers \ (human_genes \cup human_genes_pheno) :
              /\ g \notin model_only \cup model_human_set \cup multi_model_set
              /\ \A t \in TAXON_MAP : g \notin all_models[t]
        /\ InScenario =>
              /\ model_human_set = {"H1"}
              /\ model_only = {"H3", "H4"}
              /\ multi_model_set = {"H3", "H4"}
              /\ report.human_only = 1
              /\ report.one_species["C"] = 0

C4_Witness == pc = "done" /\ InScenario

\* C5: modelHuman is always a subset of AnyEvidenceSet, so the human-only
\* count is never negative.
C5_ModelHumanWithinEvidence ==
    /\ model_human_set \subseteq human_genes_pheno
    /\ results.model_human_set \subseteq human_genes_pheno
    /\ HumanOnlyCount(human_genes_pheno, model_human_set) >= 0
    /\ report.human_only >= 0

C5_Witness ==
    /\ pc = "for_ortholog"
    /\ taxon_idx = 2
    /\ model_human_set # {}
    /\ results.model_set \cap human_genes_pheno # {}
    /\ HumanOnlyCount(human_genes_pheno, model_human_set) = 1

\* C6: at every point of a run every gene of any organism's modelSet is in
\* modelOnly or in modelHuman.
C6_PartitionComplete ==
    \A ms \in ModelSets : ms \subseteq model_only \cup model_human_set

C6_Witness ==
    /\ pc = "for_ortholog"
    /\ taxon_idx = 3
    /\ results.model_set # {}
    /\ \E t \in DOMAIN all_models : all_models[t] \cap model_only # {}
    /\ \E t \in DOMAIN all_models : all_models[t] \cap model_human_set # {}

\* C10: multiModel is always a subset of modelOnly and modelOnly is disjoint
\* from modelHuman, so no organism's exclusive count is negative.
C10_SetsNested ==
    /\ multi_model_set \subseteq model_only
    /\ model_only \cap model_human_set = {}
    /\ \A ms \in ModelSets :
          /\ Cardinality(ms \cap multi_model_set) + Cardinality(ms \cap model_human_set)
                <= Cardinality(ms)
          /\ OneSpeciesCount(ms, multi_model_set, model_human_set) >= 0
    /\ \A t \in TAXON_MAP : report.one_species[t] >= 0

C10_Witness ==
    /\ pc = "done"
    /\ multi_model_set # {}
    /\ model_only \ multi_model_set # {}
    /\ model_human_set # {}
    /\ \E t \in TAXON_MAP : all_models[t] \cap multi_model_set # {}
                              /\ all_models[t] \cap model_human_set # {}

-----------------------------------------------------------------------------
(* Claims about the causal extraction and the fetch loop *)

\* C7: the result is the set of subjects of the records that are not likely
\* pathogenic and have no provenance field, an allowlisted source, or the
\* curated phenotype annotation source as their whole provenance; so it does
\* not depend on the order of the records.
C7_CausalAccept == result_set = causal_accepted

C7_Witness ==
    /\ Len(causal_processed) >= 2
    /\ "relation" \in DOMAIN causal_doc
    /\ causal_doc.relation = LikelyPathogenic
    /\ "is_defined_by" \in DOMAIN causal_doc
    /\ \E i \in DOMAIN causal_doc.is_defined_by : causal_doc.is_defined_by[i] \in causal_source
    /\ result_set # {}
    /\ causal_doc.subject \notin result_set

\* The number of pages that hold n records.
PagesOf(n) == IF n = 0 THEN 1 ELSE (n + Rows - 1) \div Rows

\* C8: the loop requests the offsets 0, rows, 2*rows, ... until the records
\* retrieved reach the total the index reports, at least once, and then ends;
\* each record is iterated exactly once, in index order.
C8_FetchComplete ==
    /\ [](causal_processed = [i \in 1..Len(causal_processed) |-> i])
    /\ [](causal_pc = "done" =>
            /\ causal_processed = [i \in 1..causal_numFound |-> i]
            /\ causal_requests = [k \in 1..PagesOf(causal_numFound) |-> (k - 1) * Rows])
    /\ <>(causal_pc = "done")

C8_Witness ==
    /\ causal_pc = "done"
    /\ Len(causal_requests) >= 2
    /\ causal_numFound % Rows # 0

-----------------------------------------------------------------------------
(* Claims about map_iri_to_curie *)

\* The result the contract describes: the first entry of CURIE_MAP whose
\* prefix the input starts with has that leading prefix replaced, the rest
\* kept as it is; no entry, the input.
RECURSIVE PrefixReplaced(_, _)
PrefixReplaced(x, k) ==
    IF k > Len(CURIE_MAP) THEN x
    ELSE IF StartsWith(x, CURIE_MAP[k].prefix)
    THEN <<CurieToken(CURIE_MAP[k].curie)>>
            \o SubSeq(x, Len(CURIE_MAP[k].prefix) + 1, Len(x))
    ELSE PrefixReplaced(x, k + 1)

\* C9: map_iri_to_curie replaces only the leading prefix of the first entry
\* that matches and returns other inputs unchanged, and normalising the
\* result again changes nothing.
C9_PrefixOnly ==
    /\ curie_pc # "start" => curie = PrefixReplaced(iri, 1)
    /\ curie_pc = "twice" => curie_again = curie

====
